---- MODULE Spec2Model ----
(***************************************************************************)
(* Glide: a browser page that runs Python code in an embedded interpreter. *)
(* The model follows src/app.js: the runtime loader, the Run / Clear /      *)
(* Download click handlers, the output sink and the variable inspector.    *)
(*                                                                         *)
(* Text is a sequence of characters.  A character is a one-element string; *)
(* a longer string such as "Runtime not ready yet." stands for a run of    *)
(* characters none of which is a carriage return or a line feed.           *)
(***************************************************************************)
EXTENDS Integers, Sequences, FiniteSets, TLC

VARIABLES
    pyodide,         \* line 25: "null" or "handle"
    pyReady,         \* line 26
    loaderPc,        \* position of the loader IIFE (lines 41-67)
    runtimeStatus,   \* runtimeStatus.textContent
    editorStatus,    \* editorStatus.textContent
    runBtnDisabled,  \* runBtn.disabled
    output,          \* outputEl.textContent
    varsEl,          \* textContent of the "variables" element
    console,         \* number of console.error calls of updateVariables
    pyGlobals,       \* the interpreter's globals(): insertion-ordered <<name, repr>> pairs
    runs,            \* every invocation of the Run handler that passed line 74
    clicks,          \* number of click events dispatched to runBtn
    steps,           \* number of steps the programs have taken (print, assignment, del, input)
    text,            \* argument of a direct appendOutput call
    called,          \* whether that call has returned
    editorValue,     \* editor.getValue() at a Download click
    promptAnswer,    \* what prompt() returns at a Download click
    blob,            \* content of the downloaded file
    download,        \* a.download, the downloaded file's name
    htmlOpen,        \* the open attribute each toolbox section has in the page's markup
    secOpen,         \* sec.open of each toolbox section
    state,           \* line 123: the object of persistToolbox, <<key, value>> pairs
    storage,         \* localStorage.getItem("glide.toolbox.state.v1")
    toggles,         \* number of toggle events delivered
    loads,           \* number of times the page has been reloaded
    doc,             \* the editor's document: its lines, line 0 first
    cursor,          \* doc.getCursor(): [line, ch]
    snippet,         \* argument of the insertSnippet call
    indented,        \* the line numbers passed to editor.indentLine, in call order
    inserts          \* number of insertSnippet calls

vars == <<pyodide, pyReady, loaderPc, runtimeStatus, editorStatus, runBtnDisabled,
          output, varsEl, console, pyGlobals, runs, clicks, steps, text, called,
          editorValue, promptAnswer, blob, download,
          htmlOpen, secOpen, state, storage, toggles, loads,
          doc, cursor, snippet, indented, inserts>>

pageVars == <<pyodide, pyReady, loaderPc, runtimeStatus, editorStatus, runBtnDisabled,
              varsEl, console, pyGlobals, runs, clicks, steps>>
callVars == <<text, called>>
downloadVars == <<editorValue, promptAnswer, blob, download>>
toolboxVars == <<htmlOpen, secOpen, state, storage, toggles, loads>>
snippetVars == <<doc, cursor, snippet, indented, inserts>>
otherVars == <<callVars, downloadVars, toolboxVars, snippetVars>>

(***************************************************************************)
(* Bounds of the model.                                                    *)
(***************************************************************************)
MaxClicks == 2      \* click events dispatched to the Run button
MaxSteps == 2       \* steps (print, assignment, del, input) of the programs, all runs together
MaxTextLen == 3     \* length of the texts passed to appendOutput directly
MaxCodeLen == 3     \* length of the editor content at a Download click
MaxNameLen == 4     \* length of the answer to the file name prompt
MaxToggles == 3     \* toggle events delivered to the toolbox sections
MaxReloads == 2     \* reloads of the page
MaxLineLen == 2     \* characters in a line of the document before the insertion

(***************************************************************************)
(* JavaScript values and strings.                                          *)
(***************************************************************************)
NL == "\n"
CR == "\r"

Null == [t |-> "null"]
Undefined == [t |-> "undefined"]
Str(s) == [t |-> "str", s |-> s]
Err(name, message) == [t |-> "error", name |-> name, message |-> message]

\* String(v) of a JavaScript value
String(v) ==
    CASE v.t = "null" -> <<"null">>
      [] v.t = "undefined" -> <<"undefined">>
      [] v.t = "str" -> v.s
      [] v.t = "error" -> IF v.message = <<>> THEN v.name
                          ELSE v.name \o <<": ">> \o v.message

endsWith(s, suffix) ==
    /\ Len(suffix) <= Len(s)
    /\ SubSeq(s, Len(s) - Len(suffix) + 1, Len(s)) = suffix

startsWith(s, prefix) ==
    /\ Len(prefix) <= Len(s)
    /\ SubSeq(s, 1, Len(prefix)) = prefix

includes(s, part) ==
    \E i \in 1..(Len(s) - Len(part) + 1) : SubSeq(s, i, i + Len(part) - 1) = part

\* s.replace(/\r\n/g, "\n"): matches are found left to right and do not overlap
RECURSIVE replaceCRLF(_)
replaceCRLF(s) ==
    IF Len(s) = 0 THEN <<>>
    ELSE IF Len(s) >= 2 /\ s[1] = CR /\ s[2] = NL
         THEN <<NL>> \o replaceCRLF(SubSeq(s, 3, Len(s)))
         ELSE <<s[1]>> \o replaceCRLF(SubSeq(s, 2, Len(s)))

(***************************************************************************)
(* Output sink (lines 28-38).  appendOutput and setOutput give the new     *)
(* textContent of the output element.                                      *)
(***************************************************************************)
\* appendOutput without the trailing newline of lines 31-32
appendOutputNoNewline(buf, v) ==
    IF v.t \in {"null", "undefined"} THEN buf
    ELSE buf \o replaceCRLF(String(v))

\* appendOutput assigning the text instead of appending it in line 32
appendOutputAssigns(buf, v) ==
    IF v.t \in {"null", "undefined"} THEN buf
    ELSE LET s == replaceCRLF(String(v))
         IN  IF Len(s) > 0 /\ ~endsWith(s, <<NL>>) THEN s \o <<NL>> ELSE s

appendOutput(buf, v) ==
    IF v.t \in {"null", "undefined"} THEN buf
    ELSE LET s == replaceCRLF(String(v))
             needsNL == Len(s) # 0 /\ ~endsWith(s, <<NL>>)
         IN  buf \o (IF needsNL THEN s \o <<NL>> ELSE s)

\* all texts of at most n characters of the set chars
TextsUpTo(chars, n) == UNION {[1..k -> chars] : k \in 0..n}

setOutput(v) ==
    IF v.t \in {"null", "undefined"} \/ (v.t = "str" /\ v.s = <<>>) THEN <<>> ELSE v.s

(***************************************************************************)
(* The interpreter as the page uses it.  globals() is an insertion-ordered *)
(* dictionary, here a sequence of <<name, repr(value)>> pairs.             *)
(***************************************************************************)
DictHas(d, k) == \E i \in DOMAIN d : d[i][1] = k

DictSet(d, k, v) ==
    IF DictHas(d, k)
    THEN [i \in DOMAIN d |-> IF d[i][1] = k THEN <<k, v>> ELSE d[i]]
    ELSE Append(d, <<k, v>>)

DictDel(d, k) == SelectSeq(d, LAMBDA p : p[1] # k)

Module == <<"<module>">>

\* globals() of a fresh interpreter
FreshGlobals == << <<(<<"_", "_", "name__">>), (<<"'__main__'">>)>> >>

\* dir(builtins), line 161
BuiltinsDir == {<<"len">>, <<"input">>, <<"_", "_", "name__">>}

\* lines 50-59: "import builtins, js" binds both names; _glide_input is deleted again
InputPatch(g) == DictSet(DictSet(g, <<"builtins">>, Module), <<"js">>, Module)

\* line 79: "import sys, traceback"
ImportSysTraceback(g) == DictSet(DictSet(g, <<"sys">>, Module), <<"traceback">>, Module)

\* names a program assigns or deletes, and the reprs of the values it assigns
UserNames == {<<"x">>, <<"_", "_", "d">>, <<"len">>}
Reprs == {<<"5">>}

\* lines a program prints (the callbacks of lines 45-46 get a line without its newline)
Lines == {<<"5">>}

\* values a failing await throws
PythonError == Err(<<"PythonError">>, <<"Traceback", NL, "ZeroDivisionError", NL>>)
Thrown == {PythonError, Err(<<"Error">>, <<>>), Null}

\* lines 53-55: a dismissed prompt raises KeyboardInterrupt("Input cancelled")
InputCancelled == Err(<<"PythonError">>, <<"Traceback", NL, "KeyboardInterrupt: Input cancelled", NL>>)

\* line 85: (e && e.message ? e.message : String(e))
RunErrorText(e) ==
    IF e.t = "error" /\ e.message # <<>> THEN e.message ELSE String(e)

\* line 65: "Error loading Pyodide:\n" + (e && e.message ? e.message : e)
LoadErrorText(e) ==
    <<"Error loading Pyodide:", NL>> \o
        (IF e.t = "error" /\ e.message # <<>> THEN e.message ELSE String(e))

NotReadyText == <<"Runtime not ready yet.", NL>>

(***************************************************************************)
(* Variable inspector (lines 154-177).                                     *)
(***************************************************************************)
\* the comprehension without the test "k not in dir(builtins)" of line 161
SnapshotKeepsBuiltins(g) ==
    SelectSeq(g, LAMBDA p : ~startsWith(p[1], <<"_", "_">>))

\* lines 160-161: the dictionary comprehension over globals().items()
Snapshot(g) ==
    SelectSeq(g, LAMBDA p : ~startsWith(p[1], <<"_", "_">>) /\ p[1] \notin BuiltinsDir)

\* lines 165-173: the text the loop leaves in the element
RECURSIVE Entries(_)
Entries(snap) ==
    IF Len(snap) = 0 THEN <<>>
    ELSE snap[1][1] \o <<" = ">> \o snap[1][2] \o <<NL>> \o Entries(Tail(snap))

Render(snap) == IF Len(snap) = 0 THEN <<"(no variables)">> ELSE Entries(snap)

\* updateVariables without the reset of line 165
updateVariablesNoClear(fault) ==
    IF ~pyReady THEN UNCHANGED <<varsEl, console, pyGlobals>>
    ELSE IF fault
         THEN /\ console' = console + 1
              /\ UNCHANGED <<varsEl, pyGlobals>>
         ELSE /\ pyGlobals' = DictSet(pyGlobals, <<"builtins">>, Module)
              /\ varsEl' = varsEl \o Render(Snapshot(pyGlobals'))
              /\ UNCHANGED console

\* fault: the query of line 158 or the element lookup of line 164 throws
updateVariables(fault) ==
    IF ~pyReady THEN UNCHANGED <<varsEl, console, pyGlobals>>
    ELSE IF fault
         THEN /\ console' = console + 1
              /\ UNCHANGED <<varsEl, pyGlobals>>
         ELSE /\ pyGlobals' = DictSet(pyGlobals, <<"builtins">>, Module)
              /\ varsEl' = Render(Snapshot(pyGlobals'))
              /\ UNCHANGED console

(***************************************************************************)
(* State after the script has run to its end: the loader is suspended at   *)
(* the await of line 44, no handler has run.                               *)
(***************************************************************************)
InitPage ==
    /\ pyodide = "null"
    /\ pyReady = FALSE
    /\ loaderPc = "loadPyodide"
    /\ runtimeStatus = "Loading Python runtime"
    /\ editorStatus = ""
    /\ runBtnDisabled = FALSE
    /\ varsEl = <<>>
    /\ console = 0
    /\ pyGlobals = FreshGlobals
    /\ runs = <<>>
    /\ clicks = 0
    /\ steps = 0

InitCall == text = Null /\ called = FALSE

InitDownload ==
    /\ editorValue = <<>>
    /\ promptAnswer = Null
    /\ blob = <<>>
    /\ download = <<>>

\* no toolbox section in the page, nothing stored
InitToolbox ==
    /\ htmlOpen = <<>>
    /\ secOpen = <<>>
    /\ state = <<>>
    /\ storage = Null
    /\ toggles = 0
    /\ loads = 0

\* an empty document, no snippet inserted
InitSnippet ==
    /\ doc = << <<>> >>
    /\ cursor = [line |-> 0, ch |-> 0]
    /\ snippet = <<>>
    /\ indented = <<>>
    /\ inserts = 0

Init == InitPage /\ output = <<>> /\ InitCall /\ InitDownload /\ InitToolbox /\ InitSnippet

(***************************************************************************)
(* Runtime loader (lines 41-67).                                           *)
(***************************************************************************)
\* the loader with line 61 moved before the input patch
LoadResolveSetsReady ==
    /\ loaderPc = "loadPyodide"
    /\ pyodide' = "handle"
    /\ pyReady' = TRUE
    /\ loaderPc' = "inputPatch"
    /\ UNCHANGED <<runtimeStatus, editorStatus, runBtnDisabled, output, varsEl,
                   console, pyGlobals, runs, clicks, steps, otherVars>>

\* line 44 resolves; line 50 starts the input patch
LoadResolve ==
    /\ loaderPc = "loadPyodide"
    /\ pyodide' = "handle"
    /\ loaderPc' = "inputPatch"
    /\ UNCHANGED <<pyReady, runtimeStatus, editorStatus, runBtnDisabled, output, varsEl,
                   console, pyGlobals, runs, clicks, steps, otherVars>>

\* lines 63-66
LoadCatch(e) ==
    /\ runtimeStatus' = "Failed to load Python"
    /\ output' = appendOutput(output, Str(LoadErrorText(e)))
    /\ loaderPc' = "failed"
    /\ UNCHANGED <<pyodide, pyReady, editorStatus, runBtnDisabled, varsEl, console,
                   pyGlobals, runs, clicks, steps, otherVars>>

\* line 44 rejects
LoadReject ==
    /\ loaderPc = "loadPyodide"
    /\ \E e \in Thrown : LoadCatch(e)

\* line 50 resolves; lines 61-62
PatchResolve ==
    /\ loaderPc = "inputPatch"
    /\ pyGlobals' = InputPatch(pyGlobals)
    /\ pyReady' = TRUE
    /\ runtimeStatus' = "Python ready"
    /\ loaderPc' = "ready"
    /\ UNCHANGED <<pyodide, editorStatus, runBtnDisabled, output, varsEl, console,
                   runs, clicks, steps, otherVars>>

\* line 50 rejects
PatchReject ==
    /\ loaderPc = "inputPatch"
    /\ \E e \in Thrown : LoadCatch(e)

(***************************************************************************)
(* Run handler (lines 70-90).  A run is one invocation that passed the     *)
(* readiness test; it is suspended at the await of line 79 ("import") or   *)
(* of line 80 ("exec") until it has returned ("returned").                 *)
(***************************************************************************)
\* executed: line 80 was reached; thrown: the value the catch block received;
\* inspection: how the updateVariables call of line 82 ended
NewRun == [pc |-> "import", executed |-> FALSE, result |-> "pending",
           thrown |-> Undefined, inspection |-> "none"]

InFlight == {r \in DOMAIN runs : runs[r].pc # "returned"}

\* the Run handler without the return of line 73
RunClickNoReturn ==
    /\ ~runBtnDisabled
    /\ clicks < MaxClicks
    /\ clicks' = clicks + 1
    /\ output' = IF ~pyReady THEN appendOutput(output, Str(NotReadyText)) ELSE output
    /\ runBtnDisabled' = TRUE
    /\ editorStatus' = "Running"
    /\ runs' = Append(runs, NewRun)
    /\ UNCHANGED <<pyodide, pyReady, loaderPc, runtimeStatus, varsEl, console, pyGlobals,
                   steps, otherVars>>

\* the Run handler without line 76
RunClickNoStatus ==
    /\ ~runBtnDisabled
    /\ clicks < MaxClicks
    /\ clicks' = clicks + 1
    /\ IF ~pyReady
       THEN /\ output' = appendOutput(output, Str(NotReadyText))
            /\ UNCHANGED <<runBtnDisabled, runs>>
       ELSE /\ runBtnDisabled' = TRUE
            /\ runs' = Append(runs, NewRun)
            /\ UNCHANGED output
    /\ UNCHANGED <<pyodide, pyReady, loaderPc, runtimeStatus, editorStatus, varsEl, console,
                   pyGlobals, steps, otherVars>>

\* the Run handler without line 75
RunClickNoDisable ==
    /\ ~runBtnDisabled
    /\ clicks < MaxClicks
    /\ clicks' = clicks + 1
    /\ IF ~pyReady
       THEN /\ output' = appendOutput(output, Str(NotReadyText))
            /\ UNCHANGED <<editorStatus, runs>>
       ELSE /\ editorStatus' = "Running"
            /\ runs' = Append(runs, NewRun)
            /\ UNCHANGED output
    /\ UNCHANGED <<pyodide, pyReady, loaderPc, runtimeStatus, runBtnDisabled, varsEl, console,
                   pyGlobals, steps, otherVars>>

\* the Run handler testing the handle (!pyodide) instead of the flag in line 71
RunClickTestsHandle ==
    /\ ~runBtnDisabled
    /\ clicks < MaxClicks
    /\ clicks' = clicks + 1
    /\ IF pyodide = "null"
       THEN /\ output' = appendOutput(output, Str(NotReadyText))
            /\ UNCHANGED <<runBtnDisabled, editorStatus, runs>>
       ELSE /\ runBtnDisabled' = TRUE
            /\ editorStatus' = "Running"
            /\ runs' = Append(runs, NewRun)
            /\ UNCHANGED output
    /\ UNCHANGED <<pyodide, pyReady, loaderPc, runtimeStatus, varsEl, console, pyGlobals,
                   steps, otherVars>>

\* A disabled button dispatches no click event.
RunClick ==
    /\ ~runBtnDisabled
    /\ clicks < MaxClicks
    /\ clicks' = clicks + 1
    /\ IF ~pyReady
       THEN /\ output' = appendOutput(output, Str(NotReadyText))
            /\ UNCHANGED <<runBtnDisabled, editorStatus, runs>>
       ELSE /\ runBtnDisabled' = TRUE
            /\ editorStatus' = "Running"
            /\ runs' = Append(runs, NewRun)
            /\ UNCHANGED output
    /\ UNCHANGED <<pyodide, pyReady, loaderPc, runtimeStatus, varsEl, console, pyGlobals,
                   steps, otherVars>>

\* line 79 resolves; line 80 passes the editor's code to the interpreter
ImportResolve(r) ==
    /\ runs[r].pc = "import"
    /\ pyGlobals' = ImportSysTraceback(pyGlobals)
    /\ runs' = [runs EXCEPT ![r].pc = "exec", ![r].executed = TRUE]
    /\ UNCHANGED <<pyodide, pyReady, loaderPc, runtimeStatus, editorStatus, runBtnDisabled,
                   output, varsEl, console, clicks, steps, otherVars>>

\* the catch block with line 88 at the end of the try block instead of in a finally
RunCatchNoFinally(r, e) ==
    /\ output' = appendOutput(output, Str(RunErrorText(e) \o <<NL>>))
    /\ editorStatus' = "Error"
    /\ runs' = [runs EXCEPT ![r].pc = "returned", ![r].result = "error", ![r].thrown = e]
    /\ UNCHANGED <<pyodide, pyReady, loaderPc, runtimeStatus, runBtnDisabled, varsEl, console,
                   pyGlobals, clicks, steps, otherVars>>

\* the catch block appending the message without the "\n" of line 85
RunCatchNoNewline(r, e) ==
    /\ output' = appendOutput(output, Str(RunErrorText(e)))
    /\ editorStatus' = "Error"
    /\ runBtnDisabled' = FALSE
    /\ runs' = [runs EXCEPT ![r].pc = "returned", ![r].result = "error", ![r].thrown = e]
    /\ UNCHANGED <<pyodide, pyReady, loaderPc, runtimeStatus, varsEl, console, pyGlobals,
                   clicks, steps, otherVars>>

\* lines 84-89: the catch block, then the finally block
RunCatch(r, e) ==
    /\ output' = appendOutput(output, Str(RunErrorText(e) \o <<NL>>))
    /\ editorStatus' = "Error"
    /\ runBtnDisabled' = FALSE
    /\ runs' = [runs EXCEPT ![r].pc = "returned", ![r].result = "error", ![r].thrown = e]
    /\ UNCHANGED <<pyodide, pyReady, loaderPc, runtimeStatus, varsEl, console, pyGlobals,
                   clicks, steps, otherVars>>

\* line 79 rejects
ImportReject(r) ==
    /\ runs[r].pc = "import"
    /\ \E e \in Thrown : RunCatch(r, e)

\* the program prints a line: the stdout or stderr callback of lines 45-46
ExecPrint(r) ==
    /\ runs[r].pc = "exec"
    /\ steps < MaxSteps
    /\ \E t \in Lines : output' = appendOutput(output, Str(t \o <<NL>>))
    /\ steps' = steps + 1
    /\ UNCHANGED <<runs, pyodide, pyReady, loaderPc, runtimeStatus, editorStatus, runBtnDisabled,
                   varsEl, console, pyGlobals, clicks, otherVars>>

\* the program binds a global name
ExecAssign(r) ==
    /\ runs[r].pc = "exec"
    /\ steps < MaxSteps
    /\ \E k \in UserNames, v \in Reprs : pyGlobals' = DictSet(pyGlobals, k, v)
    /\ steps' = steps + 1
    /\ UNCHANGED <<runs, pyodide, pyReady, loaderPc, runtimeStatus, editorStatus, runBtnDisabled,
                   output, varsEl, console, clicks, otherVars>>

\* the program deletes a global name
ExecDel(r) ==
    /\ runs[r].pc = "exec"
    /\ steps < MaxSteps
    /\ \E k \in UserNames : DictHas(pyGlobals, k) /\ pyGlobals' = DictDel(pyGlobals, k)
    /\ steps' = steps + 1
    /\ UNCHANGED <<runs, pyodide, pyReady, loaderPc, runtimeStatus, editorStatus, runBtnDisabled,
                   output, varsEl, console, clicks, otherVars>>

\* the program calls input() (lines 52-56): the prompt is answered or dismissed
ExecInput(r) ==
    /\ runs[r].pc = "exec"
    /\ steps < MaxSteps
    /\ \E v \in {Null, Str(<<"7">>)} :
          IF v = Null
          THEN RunCatch(r, InputCancelled)
          ELSE /\ steps' = steps + 1
               /\ UNCHANGED <<runs, pyodide, pyReady, loaderPc, runtimeStatus, editorStatus,
                              runBtnDisabled, output, varsEl, console, pyGlobals, clicks,
                              otherVars>>

\* line 80 resolves, with an updateVariables that has no try/catch of its own: its
\* failure reaches the catch block of line 84
ExecResolveUncaught(r) ==
    /\ runs[r].pc = "exec"
    /\ \E fault \in BOOLEAN :
          IF fault
          THEN /\ output' = appendOutput(output, Str(RunErrorText(PythonError) \o <<NL>>))
               /\ editorStatus' = "Error"
               /\ runs' = [runs EXCEPT ![r].pc = "returned", ![r].result = "error",
                                       ![r].thrown = PythonError,
                                       ![r].inspection = "failed"]
               /\ UNCHANGED <<varsEl, console, pyGlobals>>
          ELSE /\ updateVariables(FALSE)
               /\ editorStatus' = "Done"
               /\ runs' = [runs EXCEPT ![r].pc = "returned", ![r].result = "done",
                                       ![r].inspection = "ok"]
               /\ UNCHANGED output
    /\ runBtnDisabled' = FALSE
    /\ UNCHANGED <<pyodide, pyReady, loaderPc, runtimeStatus, clicks, steps, otherVars>>

\* line 80 resolves; lines 81-82, then the finally block
ExecResolve(r) ==
    /\ runs[r].pc = "exec"
    /\ editorStatus' = "Done"
    /\ \E fault \in BOOLEAN :
          /\ updateVariables(fault)
          /\ runs' = [runs EXCEPT ![r].pc = "returned", ![r].result = "done",
                                  ![r].inspection = IF fault THEN "failed" ELSE "ok"]
    /\ runBtnDisabled' = FALSE
    /\ UNCHANGED <<pyodide, pyReady, loaderPc, runtimeStatus, output, clicks, steps,
                   otherVars>>

\* line 80 rejects
ExecReject(r) ==
    /\ runs[r].pc = "exec"
    /\ \E e \in Thrown : RunCatch(r, e)

\* line 92
ClearClick ==
    /\ output' = setOutput(Str(<<>>))
    /\ UNCHANGED <<pageVars, otherVars>>

Next ==
    \/ LoadResolve
    \/ LoadReject
    \/ PatchResolve
    \/ PatchReject
    \/ RunClick
    \/ \E r \in DOMAIN runs : ImportResolve(r)
    \/ \E r \in DOMAIN runs : ImportReject(r)
    \/ \E r \in DOMAIN runs : ExecPrint(r)
    \/ \E r \in DOMAIN runs : ExecAssign(r)
    \/ \E r \in DOMAIN runs : ExecDel(r)
    \/ \E r \in DOMAIN runs : ExecInput(r)
    \/ \E r \in DOMAIN runs : ExecResolve(r)
    \/ \E r \in DOMAIN runs : ExecReject(r)
    \/ ClearClick

Spec == Init /\ [][Next]_vars

\* an awaited execution settles: the import and the program come to an end
Settle ==
    \E r \in DOMAIN runs :
        ImportResolve(r) \/ ImportReject(r) \/ ExecResolve(r) \/ ExecReject(r)

FairSpec == Spec /\ WF_vars(Settle)

(***************************************************************************)
(* appendOutput called on its own: every buffer and every argument.        *)
(***************************************************************************)
TextChars == {"a", CR, NL}
Buffers == TextsUpTo(TextChars, 2)
TextArguments == {Null, Undefined} \cup {Str(s) : s \in TextsUpTo(TextChars, MaxTextLen)}

InitAppend ==
    /\ InitPage
    /\ InitDownload
    /\ InitToolbox
    /\ InitSnippet
    /\ output \in Buffers
    /\ text \in TextArguments
    /\ called = FALSE

AppendOutputCall ==
    /\ ~called
    /\ output' = appendOutput(output, text)
    /\ called' = TRUE
    /\ UNCHANGED <<pageVars, text, downloadVars, toolboxVars, snippetVars>>

NextAppend == AppendOutputCall

AppendSpec == InitAppend /\ [][NextAppend]_vars

(***************************************************************************)
(* Download handler (lines 96-117).                                        *)
(***************************************************************************)
Comment == <<"#", " Written using GLIDE">>
footer == <<NL, NL>> \o Comment \o <<NL>>
suggested == <<"glide_code", ".", "p", "y">>

\* s.trim()
RECURSIVE trimStart(_)
trimStart(s) == IF Len(s) > 0 /\ s[1] = " " THEN trimStart(Tail(s)) ELSE s

RECURSIVE trimEnd(_)
trimEnd(s) ==
    IF Len(s) > 0 /\ s[Len(s)] = " " THEN trimEnd(SubSeq(s, 1, Len(s) - 1)) ELSE s

trim(s) == trimEnd(trimStart(s))

\* s.toLowerCase()
toLowerCase(s) ==
    [i \in DOMAIN s |-> CASE s[i] = "P" -> "p" [] s[i] = "Y" -> "y" [] OTHER -> s[i]]

\* lines 97-100 without the includes test of line 100
DownloadContentAlwaysAppends(code0) ==
    LET code1 == IF ~endsWith(code0, <<NL>>) /\ Len(code0) # 0
                 THEN code0 \o <<NL>> ELSE code0
    IN  code1 \o footer

\* lines 97-100 without the "&& code.length" of line 99
DownloadContentNoLengthTest(code0) ==
    LET code1 == IF ~endsWith(code0, <<NL>>) THEN code0 \o <<NL>> ELSE code0
    IN  IF ~includes(code1, Comment) THEN code1 \o footer ELSE code1

\* lines 97-100: the content of the file
DownloadContent(code0) ==
    LET code1 == IF ~endsWith(code0, <<NL>>) /\ Len(code0) # 0
                 THEN code0 \o <<NL>> ELSE code0
    IN  IF ~includes(code1, Comment) THEN code1 \o footer ELSE code1

\* lines 102-104: the name of the file; answer is what prompt() returned
DownloadName(answer) ==
    LET name == trim(IF answer.t = "null" \/ answer.s = <<>> THEN suggested ELSE answer.s)
    IN  IF endsWith(toLowerCase(name), <<".", "p", "y">>) THEN name
        ELSE name \o <<".", "p", "y">>

CodeChars == {"a", NL, "#", " Written using GLIDE"}
NameChars == {"a", " ", ".", "p", "Y"}
Contents == TextsUpTo(CodeChars, MaxCodeLen)
Answers == {Null} \cup {Str(s) : s \in TextsUpTo(NameChars, MaxNameLen)}

\* the content and the name are computed independently of each other: every
\* content is tried with a few answers, and every answer with a few contents
FewContents == {<<>>, <<"a">>}
FewAnswers == {Null, Str(<<"a">>)}

InitDownloadCall ==
    /\ InitPage
    /\ InitCall
    /\ InitToolbox
    /\ InitSnippet
    /\ output = <<>>
    /\ editorValue \in Contents
    /\ promptAnswer = Null
    /\ blob = <<>>
    /\ download = <<>>

DownloadClick ==
    /\ download = <<>>
    /\ blob' = DownloadContent(editorValue)
    /\ \E answer \in (IF editorValue \in FewContents THEN Answers ELSE FewAnswers) :
          /\ promptAnswer' = answer
          /\ download' = DownloadName(answer)
    /\ UNCHANGED <<pageVars, output, callVars, editorValue, toolboxVars, snippetVars>>

\* the user puts the text of the downloaded file back into the editor
PasteDownloaded ==
    /\ download # <<>>
    /\ editorValue # blob
    /\ editorValue' = blob
    /\ promptAnswer' = Null
    /\ blob' = <<>>
    /\ download' = <<>>
    /\ UNCHANGED <<pageVars, output, callVars, toolboxVars, snippetVars>>

NextDownload == DownloadClick \/ PasteDownloaded

DownloadSpec == InitDownloadCall /\ [][NextDownload]_vars

(***************************************************************************)
(* Toolbox persistence (lines 121-134).  An object is a sequence of        *)
(* <<property name, value>> pairs in insertion order; a stored value is    *)
(* the text JSON.stringify produced, one character or token per element.   *)
(***************************************************************************)
Bool(b) == [t |-> "boolean", b |-> b]
Num(n) == [t |-> "number", n |-> n]

\* state[k] of an object
DictGet(d, k) ==
    IF DictHas(d, k) THEN d[CHOOSE i \in DOMAIN d : d[i][1] = k][2] ELSE Undefined

Quote == "\""

\* JSON text of a value of the object
ValueText(v) ==
    CASE v.t = "boolean" -> IF v.b THEN "true" ELSE "false"
      [] v.t = "number" -> "1"

\* JSON.stringify(state), line 131
RECURSIVE Members(_)
Members(d) ==
    IF Len(d) = 0 THEN <<>>
    ELSE <<Quote>> \o d[1][1] \o <<Quote, ":", ValueText(d[1][2])>>
            \o (IF Len(d) > 1 THEN <<",">> ELSE <<>>) \o Members(Tail(d))

stringify(d) == <<"{">> \o Members(d) \o <<"}">>

\* JSON.parse of the text of an object, line 124: [ok, value]; ok is false where
\* JSON.parse throws
ParseFailed == [ok |-> FALSE, value |-> <<>>]

ParsedValue(tok) ==
    CASE tok = "true" -> Bool(TRUE)
      [] tok = "false" -> Bool(FALSE)
      [] tok = "1" -> Num(1)

RECURSIVE ParseMembers(_, _)
ParseMembers(t, acc) ==
    IF Len(t) < 5 \/ t[1] # Quote THEN ParseFailed
    ELSE LET closing == {j \in 2..Len(t) : t[j] = Quote}
         IN  IF closing = {} THEN ParseFailed
             ELSE LET j == CHOOSE m \in closing : \A n \in closing : m <= n
                      key == SubSeq(t, 2, j - 1)
                  IN  IF Len(t) < j + 2 \/ t[j + 1] # ":"
                         \/ t[j + 2] \notin {"true", "false", "1"}
                      THEN ParseFailed
                      ELSE LET acc2 == DictSet(acc, key, ParsedValue(t[j + 2]))
                               rest == SubSeq(t, j + 3, Len(t))
                           IN  IF rest = <<>> THEN [ok |-> TRUE, value |-> acc2]
                               ELSE IF rest[1] = "," THEN ParseMembers(Tail(rest), acc2)
                               ELSE ParseFailed

parse(t) ==
    IF Len(t) < 2 \/ t[1] # "{" \/ t[Len(t)] # "}" THEN ParseFailed
    ELSE IF Len(t) = 2 THEN [ok |-> TRUE, value |-> <<>>]
    ELSE ParseMembers(SubSeq(t, 2, Len(t) - 1), <<>>)

\* line 124: JSON.parse(localStorage.getItem(KEY) || "{}"), {} when it throws
LoadState(item) ==
    LET json == IF item.t = "null" \/ item.s = <<>> THEN <<"{", "}">> ELSE item.s
        p == parse(json)
    IN  IF p.ok THEN p.value ELSE <<>>

\* the sections of the toolbox and their data-key attributes: two sections with a key
\* of their own and one without the attribute
Sections == {1, 2, 3}
dataKey(sec) ==
    CASE sec = 1 -> Str(<<"a">>)
      [] sec = 2 -> Str(<<"b">>)
      [] sec = 3 -> Null

\* k && ... of line 128
Truthy(k) == k.t = "str" /\ k.s # <<>>

\* line 128: sec.open after the load
Restored(sec, st, html) ==
    LET k == dataKey(sec)
    IN  IF Truthy(k) /\ DictGet(st, String(k)).t = "boolean"
        THEN DictGet(st, String(k)).b
        ELSE html[sec]

\* what a page before this one may have left in the storage
InitialItems ==
    {Null,
     Str(<<"{">>),
     Str(stringify(<< <<(<<"a">>), Bool(FALSE)>>, <<(<<"b">>), Bool(TRUE)>> >>)),
     Str(stringify(<< <<(<<"a">>), Num(1)>>, <<(<<"z">>), Bool(TRUE)>> >>))}

\* the page after persistToolbox has run for the first time
InitToolboxLoaded ==
    /\ InitPage
    /\ output = <<>>
    /\ InitCall
    /\ InitDownload
    /\ InitSnippet
    /\ htmlOpen \in [Sections -> BOOLEAN]
    /\ storage \in InitialItems
    /\ state = LoadState(storage)
    /\ secOpen = [sec \in Sections |-> Restored(sec, state, htmlOpen)]
    /\ toggles = 0
    /\ loads = 0

\* the toggle listener storing the toggled section's entry alone
ToggleSectionStoresOneKey(sec) ==
    /\ toggles < MaxToggles
    /\ toggles' = toggles + 1
    /\ \E user \in BOOLEAN :
          secOpen' = [secOpen EXCEPT ![sec] = IF user THEN ~@ ELSE @]
    /\ state' = DictSet(state, String(dataKey(sec)), Bool(secOpen'[sec]))
    /\ storage' = Str(stringify(<< <<String(dataKey(sec)), Bool(secOpen'[sec])>> >>))
    /\ UNCHANGED <<pageVars, output, callVars, downloadVars, snippetVars, htmlOpen, loads>>

\* the toggle listener recording every section's sec.open, whatever the section toggled
ToggleSectionRecordsAll(sec) ==
    /\ toggles < MaxToggles
    /\ toggles' = toggles + 1
    /\ \E user \in BOOLEAN :
          secOpen' = [secOpen EXCEPT ![sec] = IF user THEN ~@ ELSE @]
    /\ state' = DictSet(DictSet(DictSet(state,
                    String(dataKey(1)), Bool(secOpen'[1])),
                    String(dataKey(2)), Bool(secOpen'[2])),
                    String(dataKey(3)), Bool(secOpen'[3]))
    /\ storage' = Str(stringify(state'))
    /\ UNCHANGED <<pageVars, output, callVars, downloadVars, snippetVars, htmlOpen, loads>>

\* lines 129-132: a toggle event on a section; user is whether the user opened or
\* closed the section (otherwise the event reports sec.open as it is)
ToggleSection(sec) ==
    /\ toggles < MaxToggles
    /\ toggles' = toggles + 1
    /\ \E user \in BOOLEAN :
          secOpen' = [secOpen EXCEPT ![sec] = IF user THEN ~@ ELSE @]
    /\ state' = DictSet(state, String(dataKey(sec)), Bool(secOpen'[sec]))
    /\ storage' = Str(stringify(state'))
    /\ UNCHANGED <<pageVars, output, callVars, downloadVars, snippetVars, htmlOpen, loads>>

\* the page is loaded again: lines 121-134 run on the stored text
Reload ==
    /\ loads < MaxReloads
    /\ loads' = loads + 1
    /\ state' = LoadState(storage)
    /\ secOpen' = [sec \in Sections |-> Restored(sec, state', htmlOpen)]
    /\ UNCHANGED <<pageVars, output, callVars, downloadVars, snippetVars, htmlOpen, storage,
                   toggles>>

NextToolbox ==
    \/ \E sec \in Sections : ToggleSection(sec)
    \/ Reload

ToolboxSpec == InitToolboxLoaded /\ [][NextToolbox]_vars

(***************************************************************************)
(* The output streams on their own (lines 44-47, 70-92): the runtime       *)
(* loads, programs emit lines of any shape on stdout or stderr, end        *)
(* normally or with an error, and the user clicks Run and Clear.  text     *)
(* holds the line the callback received last.                              *)
(***************************************************************************)
\* lines a program emits: print("5"), print("5\r"), print()
EmittedLines == {<<"5">>, <<"5", CR>>, <<>>}

\* the callback passing the line on without the + "\n" of lines 45-46
ExecEmitWithoutNewline(r) ==
    /\ runs[r].pc = "exec"
    /\ steps < MaxSteps
    /\ \E t \in EmittedLines :
          /\ text' = Str(t)
          /\ output' = appendOutput(output, Str(t))
    /\ steps' = steps + 1
    /\ UNCHANGED <<pyodide, pyReady, loaderPc, runtimeStatus, editorStatus, runBtnDisabled,
                   varsEl, console, pyGlobals, runs, clicks, called, downloadVars,
                   toolboxVars, snippetVars>>

\* lines 45-46: (t) => appendOutput(t + "\n")
ExecEmit(r) ==
    /\ runs[r].pc = "exec"
    /\ steps < MaxSteps
    /\ \E t \in EmittedLines :
          /\ text' = Str(t)
          /\ output' = appendOutput(output, Str(t \o <<NL>>))
    /\ steps' = steps + 1
    /\ UNCHANGED <<pyodide, pyReady, loaderPc, runtimeStatus, editorStatus, runBtnDisabled,
                   varsEl, console, pyGlobals, runs, clicks, called, downloadVars,
                   toolboxVars, snippetVars>>

NextStream ==
    \/ LoadResolve
    \/ PatchResolve
    \/ RunClick
    \/ \E r \in DOMAIN runs : ImportResolve(r)
    \/ \E r \in DOMAIN runs : ExecEmit(r)
    \/ \E r \in DOMAIN runs : ExecResolve(r)
    \/ \E r \in DOMAIN runs : ExecReject(r)
    \/ ClearClick

StreamSpec == Init /\ [][NextStream]_vars

(***************************************************************************)
(* Snippet insertion (lines 137-152, 192-198).  The document is the        *)
(* sequence of its lines; as in the editor, line numbers and columns count *)
(* from 0, so line n of the editor is doc[n + 1].                          *)
(***************************************************************************)
TAB == "\t"
BACKSLASH == "\\"

\* s.replace(/\\c/g, by): every backslash followed by the letter c becomes by
RECURSIVE replaceEscape(_, _, _)
replaceEscape(s, c, by) ==
    IF Len(s) = 0 THEN <<>>
    ELSE IF Len(s) >= 2 /\ s[1] = BACKSLASH /\ s[2] = c
         THEN <<by>> \o replaceEscape(SubSeq(s, 3, Len(s)), c, by)
         ELSE <<s[1]>> \o replaceEscape(SubSeq(s, 2, Len(s)), c, by)

\* lines 194-195: the data-snippet attribute (or "") with \n and \t decoded
Decoded(attr) ==
    LET raw == IF attr = Null \/ attr.s = <<>> THEN <<>> ELSE attr.s
    IN  replaceEscape(replaceEscape(raw, "n", NL), "t", TAB)

\* text.split("\n")
RECURSIVE split(_)
split(s) ==
    IF \A i \in DOMAIN s : s[i] # NL THEN <<s>>
    ELSE LET n == CHOOSE i \in DOMAIN s : s[i] = NL /\ \A j \in 1..(i - 1) : s[j] # NL
         IN  <<SubSeq(s, 1, n - 1)>> \o split(SubSeq(s, n + 1, Len(s)))

\* line 141 with the whole line in place of lineText.slice(0, cursor.ch)
needsLeadingNLWholeLine(lineText, ch) ==
    IF Len(trim(lineText)) > 0 THEN <<NL>> ELSE <<>>

\* line 141
needsLeadingNL(lineText, ch) ==
    IF Len(trim(SubSeq(lineText, 1, ch))) > 0 THEN <<NL>> ELSE <<>>

\* doc.replaceRange(t, pos): the lines of t are spliced into the line of pos
replaceRange(d, t, pos) ==
    LET ins == split(t)
        line == d[pos.line + 1]
        before == SubSeq(line, 1, pos.ch)
        after == SubSeq(line, pos.ch + 1, Len(line))
        middle == IF Len(ins) = 1
                  THEN <<before \o ins[1] \o after>>
                  ELSE <<before \o ins[1]>> \o SubSeq(ins, 2, Len(ins) - 1)
                          \o <<ins[Len(ins)] \o after>>
    IN  SubSeq(d, 1, pos.line) \o middle \o SubSeq(d, pos.line + 2, Len(d))

\* line 144: the cursor stood at pos, so the editor has moved it to the end of the
\* inserted text
changeEnd(t, pos) ==
    LET ins == split(t)
    IN  [line |-> pos.line + Len(ins) - 1,
         ch |-> Len(ins[Len(ins)]) + (IF Len(ins) = 1 THEN pos.ch ELSE 0)]

\* line 12
indentUnit == 4

\* the number of blanks and tabs a line starts with
RECURSIVE leadingSpace(_)
leadingSpace(l) ==
    IF Len(l) > 0 /\ l[1] \in {" ", TAB} THEN 1 + leadingSpace(Tail(l)) ELSE 0

\* columns the mode's indentation rule can ask for: top level, or one block deep
Indents == {0, indentUnit}

\* a line with nothing but blank lines before it is at top level
IndentsOf(d, n) ==
    IF \A i \in 1..n : leadingSpace(d[i]) = Len(d[i]) THEN {0} ELSE Indents

\* editor.indentLine(n, "smart") when the rule asks for w columns: the blanks and
\* tabs the line starts with are replaced by w blanks (indentWithTabs is false)
indentLine(d, n, w) ==
    [d EXCEPT ![n + 1] = [i \in 1..w |-> " "] \o SubSeq(@, leadingSpace(@) + 1, Len(@))]

\* the cursor after indentLine(n, "smart"): it moves with the text of its line, and
\* out of the leading blanks to their end
cursorAfterIndent(d, n, w, pos) ==
    IF pos.line # n THEN pos
    ELSE IF pos.ch <= leadingSpace(d[n + 1]) THEN [pos EXCEPT !.ch = w]
         ELSE [pos EXCEPT !.ch = @ + w - leadingSpace(d[n + 1])]

\* line 147 without its "- 1"
insertedLinesCountsPieces(snip) == Len(split(snip))

\* line 147
insertedLines(snip) == Len(split(snip)) - 1

\* texts before the insertion
DocChars == {"d", " "}
LineTexts == TextsUpTo(DocChars, MaxLineLen)
Documents == {<<l>> : l \in LineTexts} \cup {<<l, m>> : l, m \in LineTexts}
Cursors(d) == {[line |-> n, ch |-> c] : n \in 0..(Len(d) - 1), c \in 0..MaxLineLen}
                 \cap {pos \in [line : 0..(Len(d) - 1), ch : 0..MaxLineLen] :
                          pos.ch <= Len(d[pos.line + 1])}

\* data-snippet attributes: absent, or a text with escaped newlines and tabs
RawTexts ==
    {<<>>,
     <<"s">>,
     <<"s", BACKSLASH, "n">>,
     <<BACKSLASH, "n", "s">>,
     <<"s", BACKSLASH, "n", "s">>,
     <<BACKSLASH, "n">>,
     <<"s", BACKSLASH, "n", BACKSLASH, "n">>,
     <<"s", BACKSLASH, "n", BACKSLASH, "t", "s">>,
     <<BACKSLASH, "t", "s">>}
Attributes == {Null} \cup {Str(t) : t \in RawTexts}

\* the page with some text in the editor and the cursor somewhere in it
InitSnippetCall ==
    /\ InitPage /\ output = <<>> /\ InitCall /\ InitDownload /\ InitToolbox
    /\ doc \in Documents
    /\ cursor \in Cursors(doc)
    /\ snippet = <<>>
    /\ indented = <<>>
    /\ inserts = 0

\* lines 192-198 and 137-152: a click on a snippet button
SnipClick ==
    /\ inserts = 0
    /\ inserts' = 1
    /\ \E attr \in Attributes :
          LET snip == Decoded(attr)
              lead == needsLeadingNL(doc[cursor.line + 1], cursor.ch)
              inserted == replaceRange(doc, lead \o snip, cursor)
              endPos == changeEnd(lead \o snip, cursor)
              startLine == endPos.line - insertedLines(snip)
          IN  /\ snippet' = snip
              /\ indented' = [i \in 1..(endPos.line - startLine + 1) |-> startLine + i - 1]
              /\ \E w \in [startLine..endPos.line -> Indents] :
                    /\ \A n \in startLine..endPos.line : (n >= 0 => w[n] \in IndentsOf(inserted, n))
                    /\ doc' = [i \in DOMAIN inserted |->
                                 IF i - 1 \in startLine..endPos.line
                                 THEN indentLine(inserted, i - 1, w[i - 1])[i]
                                 ELSE inserted[i]]
                    /\ cursor' = cursorAfterIndent(inserted, endPos.line,
                                                   w[endPos.line], endPos)
    /\ UNCHANGED <<pageVars, output, callVars, downloadVars, toolboxVars>>

NextSnippet == SnipClick

SnippetSpec == InitSnippetCall /\ [][NextSnippet]_vars

(***************************************************************************)
(* Properties.                                                             *)
(***************************************************************************)
\* number of "Error loading Pyodide:" headings in a text
LoadErrors(s) == Cardinality({i \in DOMAIN s : s[i] = "Error loading Pyodide:"})

\* a step in which run r leaves the await of line 80
Returns(r) == runs[r].pc = "exec" /\ runs'[r].pc = "returned"

\* C1: while pyReady is false, a click on Run starts no run and no execution, appends
\* exactly the "Runtime not ready yet." notice to the output buffer, and leaves the
\* Run button enabled and the editor status as it was.
NotReadyClickRefused ==
    [][(clicks' = clicks + 1 /\ ~pyReady) =>
          /\ runs' = runs
          /\ pyGlobals' = pyGlobals
          /\ output' = output \o NotReadyText
          /\ ~runBtnDisabled /\ ~runBtnDisabled'
          /\ editorStatus' = editorStatus]_vars

NotReadyClickSeen ==
    /\ ~pyReady
    /\ pyodide = "handle"
    /\ clicks = 2
    /\ endsWith(output, NotReadyText \o NotReadyText)

\* C2: pyReady becomes true only in the step that ends a successful input patch, with
\* the handle already obtained by a successful load; when either step fails pyReady
\* is false, and that step appends one "Error loading Pyodide" message and no later
\* step appends another.
ReadyOnlyAfterLoadAndPatch ==
    [][/\ (pyReady' /\ ~pyReady) =>
              (loaderPc = "inputPatch" /\ loaderPc' = "ready" /\ pyodide = "handle")
       /\ pyReady' => (loaderPc' = "ready" /\ pyodide' = "handle")
       /\ loaderPc' = "failed" => ~pyReady'
       /\ (loaderPc # "failed" /\ loaderPc' = "failed") =>
              /\ LoadErrors(output') = LoadErrors(output) + 1
              /\ startsWith(output', output)
       /\ loaderPc = "failed" => LoadErrors(output') <= LoadErrors(output)]_vars

PatchFailedWithHandle ==
    /\ loaderPc = "failed"
    /\ pyodide = "handle"
    /\ ~pyReady
    /\ LoadErrors(output) = 1

\* C3: at most one invocation of the Run handler is between line 75 and the finally
\* block, in every reachable state.
OneRunInFlight == Cardinality(InFlight) <= 1

SecondRunInFlight ==
    /\ Len(runs) = 2
    /\ runs[1].pc = "returned"
    /\ runs[2].pc = "exec"
    /\ runBtnDisabled

\* C4: whenever the Run button is disabled, it is eventually enabled again, given that
\* the awaited executions settle.
RunBtnReenabled == runBtnDisabled ~> ~runBtnDisabled

ReenabledAfterEveryOutcome ==
    /\ Len(runs) = 2
    /\ runs[1].result = "done" /\ runs[1].inspection = "failed"
    /\ runs[2].result = "error"
    /\ ~runBtnDisabled

\* C5 as claimed: once the most recent run has executed the code and returned, normally
\* or with an error, the variables display is the rendering of the interpreter's
\* current globals (stated for a display that has been rendered before and a run whose
\* inspection, if any, did not fail).
VariablesFreshAfterEveryRun ==
    (/\ runs # <<>>
     /\ runs[Len(runs)].pc = "returned"
     /\ runs[Len(runs)].executed
     /\ runs[Len(runs)].inspection # "failed"
     /\ varsEl # <<>>)
        => varsEl = Render(Snapshot(pyGlobals))

\* C5 as amended: a run that completes normally, and whose inspection does not fail,
\* leaves the variables display equal to the rendering of the current globals,
\* recomputed wholesale; a run that ends with an error, or whose inspection fails,
\* leaves the variables display as it was before.
VariablesRefreshedOnSuccessOnly ==
    [][\A r \in DOMAIN runs :
          (runs[r].pc # "returned" /\ runs'[r].pc = "returned") =>
              IF runs'[r].result = "done" /\ runs'[r].inspection = "ok"
              THEN varsEl' = Render(Snapshot(pyGlobals'))
              ELSE varsEl' = varsEl]_vars

StaleVariablesAfterError ==
    /\ Len(runs) = 2
    /\ runs[1].result = "done" /\ runs[1].inspection = "ok"
    /\ runs[2].result = "error" /\ runs[2].executed
    /\ varsEl # <<>>
    /\ varsEl # Render(Snapshot(pyGlobals))

\* C6: when the execution of the editor code raises an error, the handler appends the
\* error's display message followed by a newline and nothing else, sets the editor
\* status to "Error" and re-enables the button with the runtime still ready; on normal
\* completion the status is "Done" and the output buffer is unchanged; and a click on
\* the enabled button of a ready runtime starts a run.
ExecutionErrorReported ==
    [][/\ \A r \in DOMAIN runs :
              Returns(r) =>
                  IF runs'[r].result = "error"
                  THEN /\ output' = output \o RunErrorText(runs'[r].thrown) \o <<NL>>
                       /\ editorStatus' = "Error"
                       /\ ~runBtnDisabled' /\ pyReady'
                  ELSE /\ output' = output
                       /\ editorStatus' = "Done"
       /\ (clicks' = clicks + 1 /\ pyReady) =>
              (Len(runs') = Len(runs) + 1 /\ runs'[Len(runs')].pc = "import")]_vars

RunsAgainAfterCancelledInput ==
    /\ Len(runs) = 2
    /\ runs[1].result = "error" /\ runs[1].thrown = InputCancelled
    /\ runs[2].pc = "exec"

\* C7: a failure inside updateVariables leaves the editor status "Done", appends
\* nothing to the output buffer, re-enables the Run button with the runtime still
\* ready, and the run returns as a normally completed one.
InspectionFailureSwallowed ==
    [][\A r \in DOMAIN runs :
          (runs[r].pc # "returned" /\ runs'[r].inspection = "failed") =>
              /\ editorStatus' = "Done"
              /\ output' = output
              /\ ~runBtnDisabled' /\ pyReady'
              /\ runs'[r].pc = "returned" /\ runs'[r].result = "done"]_vars

RunsAgainAfterInspectionFailure ==
    /\ Len(runs) = 2
    /\ runs[1].inspection = "failed"
    /\ console = 1
    /\ runs[2].result = "done" /\ runs[2].inspection = "ok"

\* C8: once the load has failed it stays failed: the failing step sets the runtime
\* status and appends one error message, pyReady is false ever after, no later step
\* appends another error message or starts a run, and every later click on Run appends
\* the not-ready notice.
LoadFailureIsPermanent ==
    [][/\ (loaderPc # "failed" /\ loaderPc' = "failed") =>
              /\ runtimeStatus' = "Failed to load Python"
              /\ LoadErrors(output') = LoadErrors(output) + 1
       /\ loaderPc = "failed" =>
              /\ loaderPc' = "failed"
              /\ ~pyReady'
              /\ runtimeStatus' = runtimeStatus
              /\ runs' = runs
              /\ LoadErrors(output') <= LoadErrors(output)
              /\ clicks' = clicks + 1 => output' = output \o NotReadyText]_vars

ClicksRefusedAfterLoadFailure ==
    /\ loaderPc = "failed"
    /\ clicks = 2
    /\ LoadErrors(output) = 1
    /\ endsWith(output, NotReadyText \o NotReadyText)

\* the positions of s that are not a carriage return directly followed by a line feed
KeptPositions(s) == {i \in DOMAIN s : ~(s[i] = CR /\ i < Len(s) /\ s[i + 1] = NL)}

\* s with every CRLF turned into LF: the characters at the kept positions, in order
WithLF(s) ==
    LET kept == KeptPositions(s)
        nth(j) == CHOOSE i \in kept : Cardinality({m \in kept : m <= i}) = j
    IN  [j \in 1..Cardinality(kept) |-> s[nth(j)]]

\* C9: appendOutput leaves the buffer unchanged for null and undefined; for a string it
\* appends the string with every CRLF replaced by LF, followed by at most one added
\* newline, and when the string is non-empty the buffer then ends in a newline.
AppendOutputContract ==
    [][(~called /\ called') =>
          IF text.t \in {"null", "undefined"}
          THEN output' = output
          ELSE /\ \E nl \in {<<>>, <<NL>>} : output' = output \o WithLF(text.s) \o nl
               /\ text.s # <<>> => endsWith(output', <<NL>>)]_vars

AppendedCRLFWithoutNewline ==
    /\ called
    /\ text = Str(<<CR, NL, "a">>)
    /\ output = <<"a", NL, "a", NL>>

\* number of places where part occurs in s
Occurrences(s, part) ==
    Cardinality({i \in 1..(Len(s) - Len(part) + 1) : SubSeq(s, i, i + Len(part) - 1) = part})

\* the downloaded content without its last Len(footer) characters
BeforeFooter(s) == SubSeq(s, 1, Len(s) - Len(footer))

EndsInOneNewline(s) == endsWith(s, <<NL>>) /\ ~endsWith(s, <<NL, NL>>)

\* C10 as claimed: for every editor content without the comment, the downloaded content
\* holds the comment once, at its end, and the code before the footer ends in exactly
\* one newline.
DownloadOneNewlineBeforeComment ==
    (download # <<>> /\ ~includes(editorValue, Comment)) =>
        /\ Occurrences(blob, Comment) = 1
        /\ endsWith(blob, footer)
        /\ EndsInOneNewline(BeforeFooter(blob))

\* C10 as amended: for every editor content without the comment, the downloaded content
\* is the editor content, then one newline exactly when the content is non-empty and
\* does not end in a newline, then the footer; it holds the comment once, at its end;
\* and the code before the footer ends in exactly one newline exactly when the editor
\* content is non-empty and does not end in two newlines.
DownloadAppendsFooterOnce ==
    (download # <<>> /\ ~includes(editorValue, Comment)) =>
        /\ blob = editorValue
                    \o (IF editorValue # <<>> /\ editorValue[Len(editorValue)] # NL
                        THEN <<NL>> ELSE <<>>)
                    \o footer
        /\ Occurrences(blob, Comment) = 1
        /\ endsWith(blob, Comment \o <<NL>>)
        /\ EndsInOneNewline(BeforeFooter(blob)) <=>
               (editorValue # <<>> /\ ~endsWith(editorValue, <<NL, NL>>))

DownloadedSeveralNewlines ==
    /\ download # <<>>
    /\ editorValue = <<"a", NL, NL>>
    /\ blob = <<"a", NL, NL>> \o footer

\* a text made of white space only (the empty text included)
IsBlank(s) == \A i \in DOMAIN s : s[i] = " "

\* C11: when the prompt yields no name (cancelled, empty, or white space only) the file
\* name is glide_code.py; otherwise it is the trimmed answer, with ".py" appended
\* exactly when the trimmed answer does not end in ".py" compared case-insensitively.
DownloadNameFallsBackWhenBlank ==
    download # <<>> =>
        IF promptAnswer.t = "null" \/ IsBlank(promptAnswer.s)
        THEN download = suggested
        ELSE LET name == trim(promptAnswer.s)
             IN  IF endsWith(toLowerCase(name), <<".", "p", "y">>)
                 THEN download = name
                 ELSE download = name \o <<".", "p", "y">>

\* C12: a reload leaves every section that has a data key as open or closed as it was
\* before the reload, and the object read from the storage at the reload equals the
\* in-memory object the page had before it.
ToolboxRoundTrip ==
    [][loads' = loads + 1 =>
          /\ \A sec \in Sections : Truthy(dataKey(sec)) => secOpen'[sec] = secOpen[sec]
          /\ state' = state]_vars

ReloadedAfterToggles ==
    /\ loads = 1
    /\ toggles = 2
    /\ secOpen[1] = ~htmlOpen[1] /\ DictGet(state, <<"a">>) = Bool(secOpen[1])
    /\ secOpen[2] = ~htmlOpen[2] /\ DictGet(state, <<"b">>) = Bool(secOpen[2])
    /\ storage = Str(stringify(state))

\* the entries of an object
Pairs(d) == {d[i] : i \in DOMAIN d}

\* the entries of an object under other names than k
Others(d, k) == {p \in Pairs(d) : p[1] # k}

\* C19: a toggle event on a section changes sec.open of no other section and, in the
\* in-memory object and in the stored object, the entry of that section's key only;
\* after it the entry holds the section's sec.open and the stored object equals the
\* in-memory object.
ToggleChangesOneEntry ==
    [][toggles' = toggles + 1 =>
          \E sec \in Sections :
              LET k == String(dataKey(sec))
              IN  /\ \A other \in Sections \ {sec} : secOpen'[other] = secOpen[other]
                  /\ Others(state', k) = Others(state, k)
                  /\ Others(LoadState(storage'), k) = Others(LoadState(storage), k)
                  /\ DictGet(state', k) = Bool(secOpen'[sec])
                  /\ storage'.t = "str" /\ parse(storage'.s).ok
                  /\ parse(storage'.s).value = state']_vars

ToggledWithOtherEntriesStored ==
    /\ toggles = 1
    /\ secOpen[1] = ~htmlOpen[1]
    /\ state = << <<(<<"a">>), Bool(secOpen[1])>>, <<(<<"b">>), Bool(TRUE)>> >>
    /\ storage = Str(stringify(state))

\* the lines of a display text, each without its newline
RECURSIVE DisplayLines(_)
DisplayLines(s) ==
    IF \A i \in DOMAIN s : s[i] # NL THEN (IF s = <<>> THEN <<>> ELSE <<s>>)
    ELSE LET n == CHOOSE i \in DOMAIN s : s[i] = NL /\ \A j \in 1..(i - 1) : s[j] # NL
         IN  <<SubSeq(s, 1, n - 1)>> \o DisplayLines(SubSeq(s, n + 1, Len(s)))

\* the name a display line shows: the text before its first " = "
LineName(l) ==
    IF \A i \in DOMAIN l : l[i] # " = " THEN l
    ELSE LET n == CHOOSE i \in DOMAIN l : l[i] = " = " /\ \A j \in 1..(i - 1) : l[j] # " = "
         IN  SubSeq(l, 1, n - 1)

\* positions of the globals that are neither dunder-prefixed nor names of builtins
Eligible(g) ==
    {i \in DOMAIN g : ~(Len(g[i][1]) >= 2 /\ g[i][1][1] = "_" /\ g[i][1][2] = "_")
                      /\ g[i][1] \notin BuiltinsDir}

\* C13: when a run completes normally and its inspection does not fail, the display
\* shows no name that starts with two underscores and no name of the builtin
\* namespace; it reads "(no variables)" exactly when no global is eligible, and
\* otherwise has exactly one line "name = value" per eligible global, in the order
\* of the globals.
SnapshotFilteredAndRendered ==
    [][\A r \in DOMAIN runs :
          (Returns(r) /\ runs'[r].result = "done" /\ runs'[r].inspection = "ok") =>
              LET g == pyGlobals'
                  lines == DisplayLines(varsEl')
                  rank(i) == Cardinality({j \in Eligible(g) : j <= i})
              IN  /\ (varsEl' = <<"(no variables)">>) <=> (Eligible(g) = {})
                  /\ Eligible(g) # {} =>
                        /\ Len(lines) = Cardinality(Eligible(g))
                        /\ \A i \in Eligible(g) :
                              lines[rank(i)] = g[i][1] \o <<" = ">> \o g[i][2]
                        /\ \A n \in DOMAIN lines :
                              /\ ~startsWith(LineName(lines[n]), <<"_", "_">>)
                              /\ LineName(lines[n]) \notin BuiltinsDir
                        /\ varsEl'[Len(varsEl')] = NL]_vars

\* a run has completed normally with a dunder name and a builtin's name among the
\* globals, and the display lists the user's variable
SnapshotTakenWithHiddenNames ==
    /\ Len(runs) = 1
    /\ runs[1].result = "done" /\ runs[1].inspection = "ok"
    /\ DictHas(pyGlobals, <<"len">>)
    /\ \E i \in DOMAIN varsEl : varsEl[i] = "builtins"
    /\ ~\E i \in DOMAIN varsEl : varsEl[i] = "len"

\* C14: the output buffer is append-only except for Clear: in every step the new
\* buffer has the old buffer as a prefix, or it is the empty text and the step is a
\* Clear click, which changes nothing else on the page; this holds also for a Clear
\* clicked while a run is in flight.
OutputAppendOnlyExceptClear ==
    [][\/ startsWith(output', output)
       \/ (output' = <<>> /\ UNCHANGED pageVars)]_vars

\* after a refused click left its message, Clear was clicked, and the program of
\* the run in flight has printed a line into the emptied buffer
PrintedAfterClear ==
    /\ clicks = 2
    /\ Len(runs) = 1
    /\ runs[1].pc = "exec"
    /\ steps = 1
    /\ output = <<"5", NL>>

\* a step in which the stdout or stderr callback receives a line
Emits == steps' = steps + 1

\* a line without the carriage return that ends it, if any
WithoutFinalCR(t) ==
    IF Len(t) > 0 /\ t[Len(t)] = CR THEN SubSeq(t, 1, Len(t) - 1) ELSE t

\* C15 as claimed: each line the interpreter emits is appended to the output buffer
\* as that line's text followed by exactly one newline.
EmittedLineAppendedVerbatim ==
    [][Emits => output' = output \o text'.s \o <<NL>>]_vars

\* C15 as amended: each line the interpreter emits is appended at the end of the
\* output buffer, in the order emitted, as the line's text without a final carriage
\* return, followed by exactly one newline; lines are emitted only by the run in
\* flight, and a run's error message, followed by a newline, is appended at the end
\* of the buffer when the run returns, so after everything that run has emitted.
EmittedLineAppendedNormalised ==
    [][/\ Emits =>
             /\ output' = output \o WithoutFinalCR(text'.s) \o <<NL>>
             /\ \E r \in DOMAIN runs : InFlight = {r} /\ runs'[r].pc = "exec"
       /\ \A r \in DOMAIN runs :
             (runs[r].pc # "returned" /\ runs'[r].pc = "returned") =>
                /\ InFlight' = {}
                /\ runs'[r].result = "error" =>
                      output' = output \o RunErrorText(runs'[r].thrown) \o <<NL>>]_vars

\* a program has emitted a line, then the line "5\r", then failed: the buffer ends
\* with the text 5, one newline and the error message
EmittedThenFailed ==
    /\ Len(runs) = 1
    /\ runs[1].result = "error" /\ runs[1].thrown = PythonError
    /\ steps = 2
    /\ text = Str(<<"5", CR>>)
    /\ endsWith(output, <<"5", NL>> \o PythonError.message \o <<NL>>)
    /\ Len(output) > Len(PythonError.message) + 3

\* the text of a document: its lines joined by newlines
RECURSIVE Flat(_)
Flat(d) == IF Len(d) = 1 THEN d[1] ELSE d[1] \o <<NL>> \o Flat(Tail(d))

\* the offset of a position in the text of a document
Offset(d, pos) == Len(Flat(SubSeq(d, 1, pos.line) \o <<SubSeq(d[pos.line + 1], 1, pos.ch)>>))

\* the number of the line that holds offset j of a text (offset 0 is before the
\* first character; a newline belongs to the line it ends)
LineOf(t, j) == Cardinality({i \in 1..j : t[i] = NL})

\* the text right after the insertion: the text before the cursor, the newlines the
\* document has gained beyond those of the snippet, the snippet, the text after
Gained == (Len(doc') - Len(doc)) - Cardinality({i \in DOMAIN snippet' : snippet'[i] = NL})
Spliced ==
    LET t == Flat(doc)
        p == Offset(doc, cursor)
    IN  SubSeq(t, 1, p) \o [i \in 1..Gained |-> NL] \o snippet' \o SubSeq(t, p + 1, Len(t))

\* offsets, in the spliced text, of the first and the last character of the snippet
FirstOfSnippet == Offset(doc, cursor) + Gained + 1
LastOfSnippet == Offset(doc, cursor) + Gained + Len(snippet')

\* C16 as claimed: for a snippet that is not empty, the lines passed to the editor's
\* automatic indentation are exactly the lines that hold a character of the inserted
\* snippet.
IndentsExactlySnippetLines ==
    [][(inserts' = 1 /\ snippet' # <<>>) =>
          {indented'[i] : i \in DOMAIN indented'} =
              {LineOf(Spliced, j - 1) : j \in FirstOfSnippet..LastOfSnippet}]_vars

\* C16 as amended: the lines passed to the editor's automatic indentation are, each
\* once and in ascending order, the lines from the one where the snippet starts to
\* the one where the insertion ends, with and without a leading newline; the last of
\* them holds no character of the snippet when the snippet is empty or ends in a
\* newline.
IndentsSnippetStartToInsertionEnd ==
    [][inserts' = 1 =>
          /\ {indented'[i] : i \in DOMAIN indented'} =
                {LineOf(Spliced, j - 1) : j \in FirstOfSnippet..(LastOfSnippet + 1)}
          /\ \A i \in 1..(Len(indented') - 1) : indented'[i + 1] = indented'[i] + 1
          /\ Gained \in {0, 1}]_vars

\* a snippet that ends in a newline was inserted after a leading newline, in front
\* of text that followed the cursor
InsertedSnippetEndingInNewline ==
    /\ inserts = 1
    /\ snippet = <<"s", NL>>
    /\ Len(doc) = 3
    /\ indented = <<1, 2>>
    /\ \E i \in DOMAIN doc[3] : doc[3][i] = "d"

\* the cursor's line has a character other than a blank or a tab before the cursor
NonBlankBefore ==
    \E i \in 1..cursor.ch : doc[cursor.line + 1][i] \notin {" ", TAB}

\* the text before the cursor, a newline exactly when NonBlankBefore, the snippet,
\* the text after the cursor
SplicedAtCursor ==
    LET t == Flat(doc)
        p == Offset(doc, cursor)
    IN  SubSeq(t, 1, p) \o (IF NonBlankBefore THEN <<NL>> ELSE <<>>) \o snippet'
            \o SubSeq(t, p + 1, Len(t))

\* a line without the blanks and tabs it starts with
RECURSIVE WithoutIndentation(_)
WithoutIndentation(l) ==
    IF Len(l) > 0 /\ l[1] \in {" ", TAB} THEN WithoutIndentation(Tail(l)) ELSE l

\* C17 as claimed: insertSnippet leaves the document as the text before the cursor,
\* a newline exactly when the cursor's line has a non-whitespace character before the
\* cursor, the snippet unchanged, and the text after the cursor.
InsertionPreservesText ==
    [][inserts' = 1 => Flat(doc') = SplicedAtCursor]_vars

\* C17 as amended: insertSnippet inserts, at the cursor, a newline exactly when the
\* cursor's line has a non-whitespace character before the cursor, and then the
\* snippet; the lines that are not re-indented are as in that text, and the
\* re-indented lines are as in that text except for the blanks and tabs they start
\* with, which the automatic indentation replaces.
InsertionPreservesTextUpToIndentation ==
    [][inserts' = 1 =>
          LET lines == split(SplicedAtCursor)
              reindented == {indented'[i] : i \in DOMAIN indented'}
          IN  /\ Len(doc') = Len(lines)
              /\ \A n \in DOMAIN lines :
                    IF n - 1 \in reindented
                    THEN /\ WithoutIndentation(doc'[n]) = WithoutIndentation(lines[n])
                         /\ Len(doc'[n]) - Len(WithoutIndentation(doc'[n])) \in Indents
                    ELSE doc'[n] = lines[n]]_vars

\* a snippet was inserted after text of the cursor's line: it starts a line of its
\* own, which the automatic indentation has indented
InsertedOnNewLineAndIndented ==
    /\ inserts = 1
    /\ snippet = <<"s">>
    /\ Len(doc) = 2
    /\ doc[1] = <<"d">>
    /\ doc[2] = <<" ", " ", " ", " ", "s", "d">>

\* content as the download produces it: it ends in a newline and holds the comment
Produced(c) == endsWith(c, <<NL>>) /\ includes(c, Comment)

\* C18: the download content transformation is idempotent: every content a download
\* produces ends in a newline and contains the attribution comment, and a download
\* of editor content of that form, such as content an earlier download produced,
\* gives that content unchanged, with no second comment.
DownloadContentIdempotent ==
    [][(download = <<>> /\ download' # <<>>) =>
          /\ Produced(blob')
          /\ Produced(editorValue) =>
                /\ blob' = editorValue
                /\ Occurrences(blob', Comment) = Occurrences(editorValue, Comment)]_vars

\* the content of an earlier download, code and footer, was put back into the
\* editor and downloaded again
DownloadedAgain ==
    /\ download # <<>>
    /\ editorValue = blob
    /\ endsWith(blob, <<"a", NL>> \o footer)

\* the Run button is disabled exactly while a run is in flight, the editor status
\* is "Running" while one is, and a ready runtime has its interpreter handle
RunStateConsistent ==
    /\ runBtnDisabled <=> InFlight # {}
    /\ InFlight # {} => editorStatus = "Running"
    /\ pyReady => pyodide = "handle"

\* C20: in every reachable state the Run button is disabled exactly while a run is in
\* flight, and the editor status is "Running" for that whole interval; pyReady true
\* implies that the interpreter handle is not null; and once pyReady is true it never
\* becomes false again.
RunStateInvariants ==
    /\ RunStateConsistent
    /\ [][RunStateConsistent' /\ (pyReady => pyReady')]_vars

\* after a run that ended with an error, a second run is in flight: the button is
\* disabled again and the status, "Error" in between, is "Running" again
RunningAgainAfterError ==
    /\ Len(runs) = 2
    /\ runs[1].result = "error"
    /\ runs[2].pc = "import"
    /\ runBtnDisabled
    /\ editorStatus = "Running"
    /\ pyReady /\ pyodide = "handle"

====
